---- MODULE Spec2Model ----
(***************************************************************************)
(* Token synchronisation orchestrator (token_updater/updater.py) and the   *)
(* token extractor it drives (token_updater/browser.py).                   *)
(*                                                                         *)
(* Execution model: asyncio, single-threaded and cooperative.  A coroutine *)
(* runs atomically from one awaited I/O operation (profile store, HTTP,    *)
(* browser engine, lock wait) to the next.  Every action below is "the     *)
(* awaited I/O completes, and the coroutine runs up to the next I/O".      *)
(* The position of each coroutine is task[t].pc, the name of the I/O it is *)
(* waiting for.                                                            *)
(***************************************************************************)
EXTENDS Integers, Sequences, FiniteSets, TLC

\* ---- bounds -------------------------------------------------------------
NumProfiles == 2
MaxSessions == 2

ProfileIds == 1..NumProfiles
MissingId == NumProfiles + 1
\* the ids sync_profile and verify_cookies are invoked with directly
DirectIds == {1, MissingId}
\* The coroutines: two sources invoke the entry points (the scheduler's timer
\* and the API), so that invocations overlap.
Tasks == {1, 2}

\* ---- values -------------------------------------------------------------
\* Python strings are sequences of characters; Python's None, where a string
\* may stand, is the one-element sequence NoneStr (not a character string).
NoneStr == <<"<None>">>
NoEmail == NoneStr
Emails == {<<"a">>, <<"b">>}
NoToken == "None"
Token == "session-token"

\* Python truthiness of an optional string: None and "" are falsy.
Truthy(s) == s # NoneStr /\ s # <<>>

\* dict.get(key, default): the default is used only when the key is absent.
Get(d, k, default) == IF k \in DOMAIN d THEN d[k] ELSE default

\* " for ", the separator of the push response message
Separator == <<" ", "f", "o", "r", " ">>

\* Response messages of POST /api/plugin/update-token the model draws from.
Messages ==
    { <<"o", "k">>, <<"u", "p">> \o Separator \o <<"b">> }

VARIABLES
    connection_token,    \* config.connection_token is set
    db,                  \* profile store: id -> profile row
    cookie_file,         \* id -> cookies.json of the profile exists
    _locked,             \* BrowserManager._lock is held
    _waiters,            \* coroutines queued on BrowserManager._lock (FIFO)
    _total_sync_count,   \* TokenSyncer._total_sync_count
    _total_error_count,  \* TokenSyncer._total_error_count
    _last_batch_time,    \* TokenSyncer._last_batch_time (0 = None)
    task,                \* per coroutine: position, locals, returned value
    sessions,            \* extract_token calls the model still follows
    recorded             \* id -> sync attempts completed and recorded (history)

\* datetime.now(): every reading of the clock is the one instant 1; a stored
\* time of 0 is Python's None (never set).
now == 1

vars == <<connection_token, db, cookie_file, _locked, _waiters,
          _total_sync_count, _total_error_count, _last_batch_time,
          task, sessions, recorded>>

\* ---- profile store (database.py) ----------------------------------------
NoProfile ==
    [id |-> 0, is_active |-> FALSE, email |-> NoEmail, is_logged_in |-> 0,
     last_sync_time |-> 0, last_sync_result |-> "", sync_count |-> 0,
     error_count |-> 0]

\* profile_db.get_profile(profile_id): the row, or None (NoProfile)
get_profile(profile_id) ==
    IF profile_id \in DOMAIN db THEN db[profile_id] ELSE NoProfile

RECURSIVE ActiveFrom(_)
ActiveFrom(i) ==
    IF i > NumProfiles THEN <<>>
    ELSE IF db[i].is_active THEN <<db[i]>> \o ActiveFrom(i + 1)
         ELSE ActiveFrom(i + 1)

\* profile_db.get_active_profiles(): the active rows in listing (id) order
get_active_profiles == ActiveFrom(1)

\* profile_db.update_profile(profile_id, **fields): partial update of a row;
\* fields is a record of the keyword arguments.
update_profile(store, profile_id, fields) ==
    IF profile_id \in DOMAIN store
    THEN [store EXCEPT ![profile_id] =
            [k \in DOMAIN @ |-> IF k \in DOMAIN fields THEN fields[k] ELSE @[k]]]
    ELSE store

\* ---- remote token authority client (pure parts) --------------------------
Contains(s, sep) ==
    \E i \in 1..Len(s) : i + Len(sep) - 1 <= Len(s)
                         /\ SubSeq(s, i, i + Len(sep) - 1) = sep

\* s.split(sep)[-1]: str.split scans left to right for non-overlapping
\* occurrences; start is the index after the last separator found so far.
RECURSIVE SplitScan(_, _, _, _)
SplitScan(s, sep, i, start) ==
    IF i + Len(sep) - 1 > Len(s) THEN SubSeq(s, start, Len(s))
    ELSE IF SubSeq(s, i, i + Len(sep) - 1) = sep
         THEN SplitScan(s, sep, i + Len(sep), i + Len(sep))
         ELSE SplitScan(s, sep, i + 1, start)

SplitLast(s, sep) == SplitScan(s, sep, 1, 1)

\* Outcomes of the HTTP exchange of _push_to_flow2api
PushResponses ==
    {[kind |-> "exception", status_code |-> 0, action |-> "", message |-> <<>>],
     [kind |-> "http", status_code |-> 500, action |-> "", message |-> <<>>]}
    \cup {[kind |-> "http", status_code |-> 200, action |-> "updated",
           message |-> m] : m \in Messages}

\* TokenSyncer._push_to_flow2api, given the outcome of the HTTP exchange
_push_to_flow2api(has_token, response) ==
    IF ~has_token THEN [success |-> FALSE, error |-> "no CONNECTION_TOKEN"]
    ELSE IF response.kind = "exception"
    THEN [success |-> FALSE, error |-> "exception"]
    ELSE IF response.status_code = 200
    THEN LET msg == response.message
             email == IF Contains(msg, Separator)
                      THEN SplitLast(msg, Separator) ELSE NoneStr
         IN [success |-> TRUE, action |-> response.action,
             message |-> msg, email |-> email]
    ELSE [success |-> FALSE, error |-> "HTTP error"]

\* Entries of the "tokens" list of POST /api/plugin/check-tokens
TokenInfos == [email : Emails, is_active : BOOLEAN, needs_refresh : BOOLEAN]

TokenLists ==
    {ts \in SUBSET TokenInfos : \A a, b \in ts : a.email = b.email => a = b}

CheckResponses ==
    {[kind |-> "exception", status_code |-> 0, tokens |-> {}],
     [kind |-> "http", status_code |-> 500, tokens |-> {}]}
    \cup {[kind |-> "http", status_code |-> 200, tokens |-> ts] :
            ts \in TokenLists}

\* TokenSyncer._check_tokens_status, given the outcome of the HTTP exchange
_check_tokens_statusMut(has_token, response) ==
    IF ~has_token
    THEN [success |-> FALSE, error |-> "no CONNECTION_TOKEN",
          needs_refresh_emails |-> {}]
    ELSE IF response.kind = "exception"
    THEN [success |-> FALSE, error |-> "exception", needs_refresh_emails |-> {}]
    ELSE IF response.status_code = 200
    THEN [success |-> TRUE,
          needs_refresh_emails |->
              {tk.email : tk \in {x \in response.tokens : x.needs_refresh}}]
    ELSE [success |-> FALSE, error |-> "HTTP error", needs_refresh_emails |-> {}]
_check_tokens_status(has_token, response) ==
    IF ~has_token
    THEN [success |-> FALSE, error |-> "no CONNECTION_TOKEN",
          needs_refresh_emails |-> {}]
    ELSE IF response.kind = "exception"
    THEN [success |-> FALSE, error |-> "exception", needs_refresh_emails |-> {}]
    ELSE IF response.status_code = 200
    THEN [success |-> TRUE,
          needs_refresh_emails |->
              {tk.email : tk \in {x \in response.tokens :
                                    x.needs_refresh /\ x.is_active}}]
    ELSE [success |-> FALSE, error |-> "HTTP error", needs_refresh_emails |-> {}]

\* ---- coroutine state -----------------------------------------------------
NoResult == [success |-> FALSE, error |-> "<unset>"]
NoReturn == [returned |-> FALSE]

ZeroCalls == [i \in 1..MissingId |-> 0]

\* A coroutine that has not been started.  The fields named as in the source are
\* the locals of sync_all_profiles / _sync_all_profiles_force (profiles,
\* needs_refresh_emails, results, success_count, error_count, skipped_count,
\* idx = position of the for loop), of sync_profile (profile_id, profile,
\* token, result) and of extract_token (et_token).  stamp is the value of
\* datetime.now() evaluated for the pending update_profile call.
\* History fields, per invocation: check (outcome of the staleness check),
\* n_list / n_check / n_extract / n_push / n_update (calls made), attempts
\* (sync_profile calls per profile id), pushed (push made in this attempt),
\* ret (value returned), prev_fresh (the all-fresh reports returned by
\* batches before this invocation started) and report (the "tokens" list the
\* staleness query answered with, in the specifications that record it).
IdleTask ==
    [pc |-> "idle", op |-> "none", mode |-> "none",
     profiles |-> <<>>, idx |-> 0, needs_refresh_emails |-> {},
     results |-> <<>>, success_count |-> 0, error_count |-> 0,
     skipped_count |-> 0,
     profile_id |-> 0, profile |-> NoProfile, token |-> NoToken,
     result |-> NoResult, et_token |-> NoToken, stamp |-> 0,
     check |-> "none", n_list |-> 0, n_check |-> 0, n_extract |-> 0,
     n_push |-> 0, n_update |-> 0, attempts |-> ZeroCalls, pushed |-> FALSE,
     ret |-> NoReturn, prev_fresh |-> {}, report |-> {}]

\* The entry point returns value: locals die; the history fields stay, and
\* with them token and needs_refresh_emails as the invocation last had them.
Return(tk, value) ==
    [IdleTask EXCEPT !.pc = "returned", !.op = tk.op, !.mode = tk.mode, !.check = tk.check,
                     !.n_list = tk.n_list, !.n_check = tk.n_check,
                     !.n_extract = tk.n_extract, !.n_push = tk.n_push,
                     !.n_update = tk.n_update, !.attempts = tk.attempts,
                     !.pushed = tk.pushed, !.token = tk.token,
                     !.needs_refresh_emails = tk.needs_refresh_emails,
                     !.ret = value, !.prev_fresh = tk.prev_fresh,
                     !.report = tk.report]

\* A new invocation of entry point op, started when the batches that had
\* returned with all tokens fresh had returned the reports fresh_reports
Fresh(op, fresh_reports) ==
    [IdleTask EXCEPT !.op = op, !.prev_fresh = fresh_reports]

\* ---- TokenSyncer.sync_profile / sync_all_profiles: control flow ----------
\* sync_profile(profile_id) is entered: it awaits profile_db.get_profile
CallSyncProfile(tk, profile_id) ==
    [tk EXCEPT !.profile_id = profile_id, !.pc = "sp_get",
               !.profile = NoProfile, !.token = NoToken, !.result = NoResult,
               !.et_token = NoToken, !.pushed = FALSE,
               !.attempts[profile_id] = @ + 1]

\* "if not profiles" of sync_all_profiles
NoProfilesMut(profiles) == FALSE
NoProfiles(profiles) == profiles = <<>>

EmptyReport == [success |-> TRUE, total |-> 0, synced |-> 0, skipped |-> 0]

\* the report returned when needs_refresh_emails is empty
AllFreshReportMut(profiles) ==
    [success |-> TRUE, total |-> Len(profiles), synced |-> 0,
     skipped |-> 0, message |-> "all tokens fresh"]
AllFreshReport(profiles) ==
    [success |-> TRUE, total |-> Len(profiles), synced |-> 0,
     skipped |-> Len(profiles), message |-> "all tokens fresh"]

\* the report returned at the end of sync_all_profiles
SmartReportMut(tk) ==
    [success |-> TRUE, total |-> Len(tk.profiles),
     synced |-> tk.success_count,
     success_count |-> tk.success_count, error_count |-> tk.error_count,
     skipped |-> tk.skipped_count, results |-> tk.results]
SmartReport(tk) ==
    [success |-> TRUE, total |-> Len(tk.profiles),
     synced |-> tk.success_count + tk.error_count,
     success_count |-> tk.success_count, error_count |-> tk.error_count,
     skipped |-> tk.skipped_count, results |-> tk.results]

\* the report returned at the end of _sync_all_profiles_force
ForceReportMut(tk) ==
    [success |-> TRUE, total |-> Len(tk.profiles),
     success_count |-> tk.success_count, error_count |-> tk.error_count,
     skipped |-> tk.error_count, results |-> tk.results]
ForceReport(tk) ==
    [success |-> TRUE, total |-> Len(tk.profiles),
     success_count |-> tk.success_count, error_count |-> tk.error_count,
     results |-> tk.results]

\* "if email and email in needs_refresh_emails" of the loop of sync_all_profiles
NeedsSync(profile, needs_refresh_emails) ==
    Truthy(profile.email) /\ profile.email \in needs_refresh_emails

\* The for loop of sync_all_profiles from position tk.idx up to its next
\* await (the sync_profile of the next selected profile) or to the return.
RECURSIVE SmartLoop(_)
SmartLoop(tk) ==
    IF tk.idx > Len(tk.profiles) THEN Return(tk, SmartReport(tk))
    ELSE IF NeedsSync(tk.profiles[tk.idx], tk.needs_refresh_emails)
         THEN CallSyncProfile(tk, tk.profiles[tk.idx].id)
         ELSE SmartLoop([tk EXCEPT !.skipped_count = @ + 1, !.idx = @ + 1])

\* The for loop of _sync_all_profiles_force from position tk.idx
ForceLoopMut(tk) ==
    IF tk.idx >= Len(tk.profiles) THEN Return(tk, ForceReport(tk))
    ELSE CallSyncProfile(tk, tk.profiles[tk.idx].id)
ForceLoop(tk) ==
    IF tk.idx > Len(tk.profiles) THEN Return(tk, ForceReport(tk))
    ELSE CallSyncProfile(tk, tk.profiles[tk.idx].id)

\* sync_profile returns result to its caller: the entry point itself, or the
\* body of one of the two for loops (append to results, count, next profile).
AfterSyncProfileFirstMut(tk, result) ==
    IF tk.op = "sync_profile" THEN Return(tk, result)
    ELSE LET entry == result @@ [profile_id |-> tk.profiles[tk.idx].id,
                                 profile_name |-> tk.profiles[tk.idx].id]
             tk2 == [tk EXCEPT
                       !.results = <<entry>> \o @,
                       !.success_count = IF result.success THEN @ + 1 ELSE @,
                       !.error_count = IF result.success THEN @ ELSE @ + 1,
                       !.idx = @ + 1]
         IN IF tk.mode = "force" THEN ForceLoop(tk2) ELSE SmartLoop(tk2)
AfterSyncProfileMut(tk, result) ==
    IF tk.op = "sync_profile" THEN Return(tk, result)
    ELSE LET entry == result @@ [profile_id |-> tk.profiles[tk.idx].id,
                                 profile_name |-> tk.profiles[tk.idx].id]
             tk2 == [tk EXCEPT
                       !.results = Append(@, entry),
                       !.success_count = IF result.success THEN @ + 1 ELSE @,
                       !.error_count = IF result.success THEN @ ELSE @ + 1,
                       !.idx = @ + 1]
         IN IF ~result.success
            THEN Return(tk2, IF tk.mode = "force" THEN ForceReport(tk2)
                             ELSE SmartReport(tk2))
            ELSE IF tk.mode = "force" THEN ForceLoop(tk2) ELSE SmartLoop(tk2)
AfterSyncProfile(tk, result) ==
    IF tk.op = "sync_profile" THEN Return(tk, result)
    ELSE LET entry == result @@ [profile_id |-> tk.profiles[tk.idx].id,
                                 profile_name |-> tk.profiles[tk.idx].id]
             tk2 == [tk EXCEPT
                       !.results = Append(@, entry),
                       !.success_count = IF result.success THEN @ + 1 ELSE @,
                       !.error_count = IF result.success THEN @ ELSE @ + 1,
                       !.idx = @ + 1]
         IN IF tk.mode = "force" THEN ForceLoop(tk2) ELSE SmartLoop(tk2)

\* extract_token returns token to its caller: verify_cookies returns, and
\* sync_profile goes on to "if not token" (update_profile is awaited) or to
\* _push_to_flow2api (the POST is awaited; without a credential it returns
\* at once and update_profile is awaited).
AfterExtractMut(tk, token, has_token, time) ==
    IF tk.op = "verify_cookies"
    THEN Return(tk, [success |-> TRUE, valid |-> token # NoToken])
    ELSE IF ~has_token
    THEN [tk EXCEPT !.token = token, !.pc = "sp_upd", !.stamp = time,
                    !.pushed = TRUE, !.n_push = @ + 1,
                    !.result = _push_to_flow2api(FALSE, CHOOSE r \in PushResponses : TRUE)]
    ELSE [tk EXCEPT !.token = token, !.pc = "sp_push"]
AfterExtract(tk, token, has_token, time) ==
    IF tk.op = "verify_cookies"
    THEN Return(tk, [success |-> TRUE, valid |-> token # NoToken])
    ELSE IF token = NoToken
    THEN [tk EXCEPT !.token = token, !.pc = "sp_upd", !.stamp = time]
    ELSE IF ~has_token
    THEN [tk EXCEPT !.token = token, !.pc = "sp_upd", !.stamp = time,
                    !.pushed = TRUE, !.n_push = @ + 1,
                    !.result = _push_to_flow2api(FALSE, CHOOSE r \in PushResponses : TRUE)]
    ELSE [tk EXCEPT !.token = token, !.pc = "sp_push"]

\* The keyword arguments of the update_profile call of sync_profile, in its
\* three branches: no token, push succeeded, push failed.
BookkeepingStaleMut(tk) ==
    IF tk.token = NoToken
    THEN [last_sync_time |-> tk.stamp, last_sync_result |-> "failed: no token",
          error_count |-> tk.profile.error_count + 1]
    ELSE IF tk.result.success
    THEN [email |-> Get(tk.result, "email", tk.profile.email),
          last_sync_time |-> tk.stamp,
          last_sync_result |-> "success: " \o Get(tk.result, "action", "synced"),
          sync_count |-> tk.profile.sync_count + 1]
    ELSE [last_sync_time |-> tk.stamp,
          error_count |-> tk.profile.error_count + 1]
BookkeepingMut(tk) ==
    IF tk.token = NoToken
    THEN [last_sync_time |-> tk.stamp, last_sync_result |-> "failed: no token",
          error_count |-> tk.profile.error_count]
    ELSE IF tk.result.success
    THEN [email |-> Get(tk.result, "email", tk.profile.email),
          last_sync_time |-> tk.stamp,
          last_sync_result |-> "success: " \o Get(tk.result, "action", "synced"),
          sync_count |-> tk.profile.sync_count + 1]
    ELSE [last_sync_time |-> tk.stamp,
          last_sync_result |-> "failed: " \o Get(tk.result, "error", "unknown"),
          error_count |-> tk.profile.error_count + 1]
Bookkeeping(tk) ==
    IF tk.token = NoToken
    THEN [last_sync_time |-> tk.stamp, last_sync_result |-> "failed: no token",
          error_count |-> tk.profile.error_count + 1]
    ELSE IF tk.result.success
    THEN [email |-> Get(tk.result, "email", tk.profile.email),
          last_sync_time |-> tk.stamp,
          last_sync_result |-> "success: " \o Get(tk.result, "action", "synced"),
          sync_count |-> tk.profile.sync_count + 1]
    ELSE [last_sync_time |-> tk.stamp,
          last_sync_result |-> "failed: " \o Get(tk.result, "error", "unknown"),
          error_count |-> tk.profile.error_count + 1]

\* The value sync_profile returns after its bookkeeping
SyncResult(tk) ==
    IF tk.token = NoToken
    THEN [success |-> FALSE, error |-> "cannot extract token, log in first"]
    ELSE tk.result

\* "async with self._lock" of extract_token finds the lock free: asyncio.Lock
\* is taken at once only when it is not held and nobody is queued for it.
GateOpenMut == TRUE
GateOpen == ~_locked /\ _waiters = <<>>

\* The lock after extract_token leaves "async with self._lock" on the given
\* exit path ("missing": no profile or no cookie file, "exception": the
\* browser session raised, "returned": return token): it is released.
LockAfterMut(path) == path = "exception"
LockAfter(path) == FALSE

\* "if not profile" of sync_profile
ProfileMissingMut(profile) == FALSE
ProfileMissing(profile) == profile = NoProfile

\* The branch of sync_profile that counts as a sync: "if not token" is false
\* and result["success"] is true.
PushSucceededMut(tk) == tk.token # NoToken
PushSucceeded(tk) == tk.token # NoToken /\ tk.result.success

\* "if not config.connection_token" of sync_all_profiles
MissingCredentialMut == FALSE
MissingCredential == ~connection_token

\* ---- initial state ------------------------------------------------------
\* The profiles the model starts from: an inactive one, and active ones that
\* were just created (no cookies, no email), that had cookies imported (no
\* email yet: the email is learned from a push), or whose email is known.
ProfileKinds ==
    {[is_active |-> FALSE, has_email |-> FALSE, cookies |-> FALSE],
     [is_active |-> TRUE, has_email |-> FALSE, cookies |-> FALSE],
     [is_active |-> TRUE, has_email |-> FALSE, cookies |-> TRUE],
     [is_active |-> TRUE, has_email |-> TRUE, cookies |-> TRUE]}

\* Profiles are listed with the further advanced ones first.
KindRank(kind) ==
    IF ~kind.is_active THEN 0
    ELSE IF kind.has_email THEN 3
    ELSE IF kind.cookies THEN 2 ELSE 1

EmailOf(i) == IF i % 2 = 1 THEN <<"a">> ELSE <<"b">>

\* The store, the lock and the counters after construction.  Profiles exist
\* with nothing synced yet.  A profile whose cookies were imported
\* (import_cookies) has its cookie file and is_logged_in = 1.
Constructed ==
    /\ connection_token \in BOOLEAN
    /\ \E kind \in {k \in [ProfileIds -> ProfileKinds] :
                      \A i, j \in ProfileIds :
                          i < j => KindRank(k[i]) >= KindRank(k[j])} :
      /\ cookie_file = [i \in ProfileIds |-> kind[i].cookies]
      /\ db = [i \in ProfileIds |->
                 [id |-> i, is_active |-> kind[i].is_active,
                  email |-> IF kind[i].has_email THEN EmailOf(i) ELSE NoEmail,
                  is_logged_in |-> IF kind[i].cookies THEN 1 ELSE 0,
                  last_sync_time |-> 0, last_sync_result |-> "",
                  sync_count |-> 0, error_count |-> 0]]
    /\ _locked = FALSE
    /\ _waiters = <<>>
    /\ _total_sync_count = 0
    /\ _total_error_count = 0
    /\ _last_batch_time = 0
    /\ recorded = [i \in ProfileIds |-> 0]

Init ==
    /\ Constructed
    /\ task = [t \in Tasks |-> IdleTask]
    /\ sessions = MaxSessions

\* ---- entry points -------------------------------------------------------
\* Coroutine t has not been started yet.  Every invocation of an entry point
\* is a coroutine of its own, and coroutines are numbered in the order in
\* which they are started.
NotInvoked(t) ==
    /\ task[t].op = "none"
    /\ t > 1 => task[t - 1].op # "none"

\* The reports of the batches that have returned with all tokens fresh
FreshReports ==
    {task[u].ret : u \in {v \in Tasks : /\ task[v].pc = "returned"
                                         /\ task[v].op = "sync_all"
                                         /\ "message" \in DOMAIN task[v].ret}}

\* sync_all_profiles() is invoked (updater.py 115-124)
InvokeSyncAll(t) ==
    /\ NotInvoked(t)
    /\ IF MissingCredential
       THEN /\ task' = [task EXCEPT ![t] =
                   Return(Fresh("sync_all", FreshReports),
                          [success |-> FALSE, error |-> "no CONNECTION_TOKEN"])]
            /\ UNCHANGED _last_batch_time
       ELSE /\ _last_batch_time' = now
            /\ task' = [task EXCEPT ![t] =
                   [Fresh("sync_all", FreshReports) EXCEPT !.pc = "sa_list", !.mode = "smart"]]
    /\ UNCHANGED <<connection_token, db, cookie_file, _locked, _waiters,
                   _total_sync_count, _total_error_count, sessions, recorded>>

\* sync_profile(profile_id) is invoked directly
InvokeSyncProfile(t) ==
    /\ NotInvoked(t)
    /\ \E profile_id \in DirectIds :
         task' = [task EXCEPT ![t] =
                    CallSyncProfile(Fresh("sync_profile", FreshReports), profile_id)]
    /\ UNCHANGED <<connection_token, db, cookie_file, _locked, _waiters,
                   _total_sync_count, _total_error_count, _last_batch_time,
                   sessions, recorded>>

\* verify_cookies(profile_id) is invoked (browser.py 236-238)
InvokeVerifyCookies(t) ==
    /\ NotInvoked(t)
    /\ \E profile_id \in DirectIds :
         task' = [task EXCEPT ![t] =
                    [Fresh("verify_cookies", FreshReports) EXCEPT
                       !.pc = "vc_get", !.profile_id = profile_id]]
    /\ UNCHANGED <<connection_token, db, cookie_file, _locked, _waiters,
                   _total_sync_count, _total_error_count, _last_batch_time,
                   sessions, recorded>>

\* ---- sync_all_profiles ---------------------------------------------------
\* profile_db.get_active_profiles() of sync_all_profiles completes
\* (updater.py 124-134): an empty listing returns; otherwise the staleness
\* query is sent (without a credential _check_tokens_status fails at once and
\* the fallback's own listing is awaited).
GetActiveProfiles(t) ==
    /\ task[t].pc = "sa_list"
    /\ LET profiles == get_active_profiles
           tk == [task[t] EXCEPT !.profiles = profiles, !.n_list = @ + 1]
       IN task' = [task EXCEPT ![t] =
                 IF NoProfiles(profiles) THEN Return(tk, EmptyReport)
                 ELSE IF ~connection_token
                 THEN [tk EXCEPT !.pc = "fo_list", !.check = "failed"]
                 ELSE [tk EXCEPT !.pc = "sa_check"]]
    /\ UNCHANGED <<connection_token, db, cookie_file, _locked, _waiters,
                   _total_sync_count, _total_error_count, _last_batch_time,
                   sessions, recorded>>

\* The POST of _check_tokens_status completes (updater.py 40-64, 136-160);
\* with keep, the history field report records the answer.
CheckCompletes(t, keep) ==
    /\ task[t].pc = "sa_check"
    /\ \E response \in CheckResponses :
         LET check_result == _check_tokens_status(connection_token, response)
             tk == [task[t] EXCEPT !.n_check = @ + 1,
                                   !.report = IF keep THEN response.tokens ELSE @]
         IN task' = [task EXCEPT ![t] =
                 IF ~check_result.success
                 THEN [tk EXCEPT !.pc = "fo_list", !.check = "failed"]
                 ELSE IF check_result.needs_refresh_emails = {}
                 THEN Return([tk EXCEPT !.check = "ok"],
                             AllFreshReport(tk.profiles))
                 ELSE SmartLoop([tk EXCEPT
                        !.check = "ok", !.idx = 1,
                        !.needs_refresh_emails =
                            check_result.needs_refresh_emails])]
    /\ UNCHANGED <<connection_token, db, cookie_file, _locked, _waiters,
                   _total_sync_count, _total_error_count, _last_batch_time,
                   sessions, recorded>>

CheckTokensStatus(t) == CheckCompletes(t, FALSE)

\* profile_db.get_active_profiles() of _sync_all_profiles_force completes
\* (updater.py 191-198)
ForceGetActiveProfiles(t) ==
    /\ task[t].pc = "fo_list"
    /\ task' = [task EXCEPT ![t] =
                  ForceLoop([@ EXCEPT !.profiles = get_active_profiles,
                                      !.n_list = @ + 1, !.mode = "force",
                                      !.idx = 1])]
    /\ UNCHANGED <<connection_token, db, cookie_file, _locked, _waiters,
                   _total_sync_count, _total_error_count, _last_batch_time,
                   sessions, recorded>>

\* ---- extract_token: the gate --------------------------------------------
\* extract_token(profile_id) is entered by coroutine t in state tk
\* (browser.py 145-148): the lock is taken, or t queues for it.  The model
\* follows at most MaxSessions extract_token calls.
EnterExtract(t, tk) ==
    LET tk1 == [tk EXCEPT !.n_extract = @ + 1]
    IN /\ sessions > 0
       /\ sessions' = sessions - 1
       /\ IF GateOpen
          THEN /\ _locked' = TRUE
               /\ _waiters' = _waiters
               /\ task' = [task EXCEPT ![t] = [tk1 EXCEPT !.pc = "et_get"]]
          ELSE /\ _locked' = _locked
               /\ _waiters' = Append(_waiters, t)
               /\ task' = [task EXCEPT ![t] = [tk1 EXCEPT !.pc = "et_wait"]]

\* profile_db.get_profile() of sync_profile completes (updater.py 68-75)
SyncProfileGet(t) ==
    /\ task[t].pc = "sp_get"
    /\ LET profile == get_profile(task[t].profile_id)
       IN IF ProfileMissing(profile)
          THEN /\ task' = [task EXCEPT ![t] =
                     AfterSyncProfile(@, [success |-> FALSE,
                                          error |-> "profile does not exist"])]
               /\ UNCHANGED <<_locked, _waiters, sessions>>
          ELSE EnterExtract(t, [task[t] EXCEPT !.profile = profile])
    /\ UNCHANGED <<connection_token, db, cookie_file,
                   _total_sync_count, _total_error_count, _last_batch_time,
                   recorded>>

\* profile_db.get_profile() of verify_cookies completes (browser.py 238-242)
VerifyCookiesGet(t) ==
    /\ task[t].pc = "vc_get"
    /\ IF get_profile(task[t].profile_id) = NoProfile
       THEN /\ task' = [task EXCEPT ![t] =
                  Return(@, [success |-> FALSE,
                             error |-> "profile does not exist"])]
            /\ UNCHANGED <<_locked, _waiters, sessions>>
       ELSE EnterExtract(t, task[t])
    /\ UNCHANGED <<connection_token, db, cookie_file,
                   _total_sync_count, _total_error_count, _last_batch_time,
                   recorded>>

\* The lock was released and t is the first in the queue: t takes the lock
LockAcquired(t) ==
    /\ task[t].pc = "et_wait"
    /\ ~_locked
    /\ _waiters # <<>>
    /\ Head(_waiters) = t
    /\ _locked' = TRUE
    /\ _waiters' = Tail(_waiters)
    /\ task' = [task EXCEPT ![t].pc = "et_get"]
    /\ UNCHANGED <<connection_token, db, cookie_file,
                   _total_sync_count, _total_error_count, _last_batch_time,
                   sessions, recorded>>

\* profile_db.get_profile() inside the gate completes (browser.py 148-164):
\* a missing profile or a missing cookie file returns None and releases the
\* lock; otherwise the browser session starts.
ExtractGetProfile(t) ==
    /\ task[t].pc = "et_get"
    /\ IF get_profile(task[t].profile_id) = NoProfile
          \/ ~cookie_file[task[t].profile_id]
       THEN /\ _locked' = LockAfter("missing")
            /\ task' = [task EXCEPT ![t] =
                          AfterExtract(@, NoToken, connection_token, now)]
       ELSE /\ _locked' = _locked
            /\ task' = [task EXCEPT ![t].pc = "et_browser"]
    /\ UNCHANGED <<connection_token, db, cookie_file, _waiters,
                   _total_sync_count, _total_error_count, _last_batch_time,
                   sessions, recorded>>

\* The browser session completes (browser.py 164-222, 227-234): it raised
\* (None is returned, the lock released), or the cookies were read back with
\* or without the session cookie and update_profile is awaited.
ExtractBrowser(t) ==
    /\ task[t].pc = "et_browser"
    /\ \E outcome \in {"exception", "token", "no_token"} :
         \* the session cookie is found only with the profile's directory
         \* in place (the cookie file is read, and written back)
         /\ outcome = "token" => cookie_file[task[t].profile_id]
         /\ IF outcome = "exception"
            THEN /\ _locked' = LockAfter("exception")
                 /\ task' = [task EXCEPT ![t] =
                               AfterExtract(@, NoToken, connection_token, now)]
                 /\ cookie_file' = cookie_file
            ELSE /\ _locked' = _locked
                 /\ task' = [task EXCEPT ![t] =
                        [@ EXCEPT !.pc = "et_upd",
                                  !.et_token = IF outcome = "token"
                                               THEN Token ELSE NoToken]]
                 /\ cookie_file' =
                      IF outcome = "token"
                      THEN [cookie_file EXCEPT ![task[t].profile_id] = TRUE]
                      ELSE cookie_file
    /\ UNCHANGED <<connection_token, db, _waiters,
                   _total_sync_count, _total_error_count, _last_batch_time,
                   sessions, recorded>>

\* The keyword arguments of the update_profile call of extract_token
LoginFields(token) == [is_logged_in |-> IF token # NoToken THEN 1 ELSE 0]

\* update_profile() of extract_token completes (browser.py 214-234): the
\* token is returned and the lock released.
ExtractUpdate(t) ==
    /\ task[t].pc = "et_upd"
    /\ db' = update_profile(db, task[t].profile_id, LoginFields(task[t].et_token))
    /\ _locked' = LockAfter("returned")
    /\ task' = [task EXCEPT ![t] =
                  AfterExtract([@ EXCEPT !.n_update = @ + 1], @.et_token,
                               connection_token, now)]
    /\ UNCHANGED <<connection_token, cookie_file, _waiters,
                   _total_sync_count, _total_error_count, _last_batch_time,
                   sessions, recorded>>

\* ---- sync_profile: push and bookkeeping ---------------------------------
\* The POST of _push_to_flow2api completes with one of the given outcomes
\* (updater.py 91-110, 228-254)
PushCompletes(t, responses) ==
    /\ task[t].pc = "sp_push"
    /\ \E response \in responses :
         task' = [task EXCEPT ![t] =
                    [@ EXCEPT !.result = _push_to_flow2api(connection_token, response),
                              !.pushed = TRUE, !.n_push = @ + 1,
                              !.pc = "sp_upd", !.stamp = now]]
    /\ UNCHANGED <<connection_token, db, cookie_file, _locked, _waiters,
                   _total_sync_count, _total_error_count, _last_batch_time,
                   sessions, recorded>>

PushToFlow2api(t) == PushCompletes(t, PushResponses)

\* update_profile() of sync_profile completes (updater.py 78-113): the
\* process-wide counter is incremented and the result returned.
SyncProfileUpdate(t) ==
    /\ task[t].pc = "sp_upd"
    /\ LET tk == task[t]
           ok == PushSucceeded(tk)
       IN /\ db' = update_profile(db, tk.profile_id, Bookkeeping(tk))
          /\ _total_sync_count' = IF ok THEN _total_sync_count + 1
                                  ELSE _total_sync_count
          /\ _total_error_count' = IF ok THEN _total_error_count
                                   ELSE _total_error_count + 1
          /\ recorded' = [recorded EXCEPT ![tk.profile_id] = @ + 1]
          /\ task' = [task EXCEPT ![t] =
                        AfterSyncProfile([tk EXCEPT !.n_update = @ + 1],
                                         SyncResult(tk))]
    /\ UNCHANGED <<connection_token, cookie_file, _locked, _waiters,
                   _last_batch_time, sessions>>

Next ==
    \E t \in Tasks :
        \/ InvokeSyncAll(t)
        \/ InvokeSyncProfile(t)
        \/ InvokeVerifyCookies(t)
        \/ GetActiveProfiles(t)
        \/ CheckTokensStatus(t)
        \/ ForceGetActiveProfiles(t)
        \/ SyncProfileGet(t)
        \/ VerifyCookiesGet(t)
        \/ LockAcquired(t)
        \/ ExtractGetProfile(t)
        \/ ExtractBrowser(t)
        \/ ExtractUpdate(t)
        \/ PushToFlow2api(t)
        \/ SyncProfileUpdate(t)

Spec == Init /\ [][Next]_vars

\* ---- one attempt, over a wide range of push response messages -----------
\* The response message is free text of the remote authority: the messages
\* here are all concatenations of at most MaxPieces pieces of text, so that
\* the separator " for " occurs not at all, once, several times, and with two
\* occurrences sharing a space.
MaxPieces == 5

Pieces == {<<"b">>, <<" ">>, <<"f", "o", "r">>}

RECURSIVE Flatten(_)
Flatten(ps) == IF ps = <<>> THEN <<>> ELSE Head(ps) \o Flatten(Tail(ps))

WideMessages ==
    {Flatten(ps) : ps \in UNION {[1..n -> Pieces] : n \in 0..MaxPieces}}

WideResponses ==
    {[kind |-> "exception", status_code |-> 0, action |-> "", message |-> <<>>],
     [kind |-> "http", status_code |-> 500, action |-> "", message |-> <<>>]}
    \cup {[kind |-> "http", status_code |-> 200, action |-> "updated",
           message |-> m] : m \in WideMessages}

PushToFlow2apiWide(t) == PushCompletes(t, WideResponses)

\* One coroutine runs one sync_profile call, alone.
ParseNext ==
    \/ InvokeSyncProfile(1)
    \/ SyncProfileGet(1)
    \/ ExtractGetProfile(1)
    \/ ExtractBrowser(1)
    \/ ExtractUpdate(1)
    \/ PushToFlow2apiWide(1)
    \/ SyncProfileUpdate(1)

ParseSpec == Init /\ [][ParseNext]_vars

\* ---- one batch, alone, with the answer of the staleness query recorded ---
CheckTokensStatusKept(t) == CheckCompletes(t, TRUE)

BatchNext ==
    \/ InvokeSyncAll(1)
    \/ GetActiveProfiles(1)
    \/ CheckTokensStatusKept(1)
    \/ ForceGetActiveProfiles(1)
    \/ SyncProfileGet(1)
    \/ ExtractGetProfile(1)
    \/ ExtractBrowser(1)
    \/ ExtractUpdate(1)
    \/ PushToFlow2api(1)
    \/ SyncProfileUpdate(1)

BatchSpec == Init /\ [][BatchNext]_vars

\* ---- three direct callers ------------------------------------------------
\* sync_profile and verify_cookies are called directly (the API) by three
\* coroutines, so that an attempt can be overtaken by two others.
Callers == {1, 2, 3}

DirectInit ==
    /\ Constructed
    /\ task = [t \in Callers |-> IdleTask]
    /\ sessions = MaxSessions + 1

DirectNext ==
    \E t \in Callers :
        \/ InvokeSyncProfile(t)
        \/ InvokeVerifyCookies(t)
        \/ SyncProfileGet(t)
        \/ VerifyCookiesGet(t)
        \/ LockAcquired(t)
        \/ ExtractGetProfile(t)
        \/ ExtractBrowser(t)
        \/ ExtractUpdate(t)
        \/ PushToFlow2api(t)
        \/ SyncProfileUpdate(t)

DirectSpec == DirectInit /\ [][DirectNext]_vars

\* ---- the gate, with callers queueing and a profile deleted ---------------
\* A profile is deleted by the API while calls are in progress: its row
\* leaves the store, and delete_profile_data removes its directory with the
\* cookie file (browser.py 248-253).
DeleteProfile(profile_id) ==
    /\ profile_id \in DOMAIN db
    /\ db' = [i \in DOMAIN db \ {profile_id} |-> db[i]]
    /\ cookie_file' = [cookie_file EXCEPT ![profile_id] = FALSE]
    /\ UNCHANGED <<connection_token, _locked, _waiters, _total_sync_count,
                   _total_error_count, _last_batch_time, task, sessions,
                   recorded>>

\* One step of an extraction session of t, or t's wake-up from the queue
GateStep(t) ==
    \/ LockAcquired(t)
    \/ ExtractGetProfile(t)
    \/ ExtractBrowser(t)
    \/ ExtractUpdate(t)

GateNext ==
    \/ \E t \in Callers :
          \/ InvokeVerifyCookies(t)
          \/ VerifyCookiesGet(t)
          \/ GateStep(t)
    \/ DeleteProfile(1)

\* The event loop resumes a coroutine whose awaited operation has completed,
\* and every operation of an extraction session completes.
GateFairSpec ==
    /\ DirectInit
    /\ [][GateNext]_vars
    /\ \A t \in Callers : WF_vars(GateStep(t))

\* ---- properties ----------------------------------------------------------
\* t is inside the gated section of BrowserManager.extract_token
InGate(t) == task[t].pc \in {"et_get", "et_browser", "et_upd"}

\* t has returned from an invocation of sync_all_profiles
ReturnedBatch(t) ==
    /\ task[t].pc = "returned"
    /\ task[t].op = "sync_all"

\* C1: at most one extraction session is in flight: no reachable state has
\* two coroutines inside the gated section of extract_token, whatever
\* sync_all_profiles / sync_profile / verify_cookies invocations overlap.
C1_SingleFlight ==
    \A t1, t2 \in Tasks : InGate(t1) /\ InGate(t2) => t1 = t2

\* One coroutine is in the gated section while another one queues for it.
C1_Witness ==
    \E t1, t2 \in Tasks : t1 # t2 /\ InGate(t1) /\ task[t2].pc = "et_wait"

\* C2: when the staleness check failed, the batch that returns has made
\* exactly one sync_profile attempt for every active profile (and none for
\* any other id); while it runs, no profile is attempted twice.
C2_FallbackOncePerActive ==
    \A t \in Tasks :
        task[t].op = "sync_all" /\ task[t].check = "failed" =>
            /\ \A p \in 1..MissingId : task[t].attempts[p] <= 1
            /\ ReturnedBatch(t) =>
                 \A p \in 1..MissingId :
                     task[t].attempts[p] =
                         IF p \in ProfileIds /\ db[p].is_active THEN 1 ELSE 0

\* A fallback batch over two active profiles has returned.
C2_Witness ==
    \E t \in Tasks :
        /\ ReturnedBatch(t)
        /\ task[t].check = "failed"
        /\ Len(task[t].ret.results) >= 2

\* C3: every report returned by sync_all_profiles after a successful
\* staleness check satisfies synced = success_count + error_count and
\* synced + skipped = total, total being the number of active profiles.
\* (The report of a batch in which nothing was stale carries no success_count
\* and no error_count: no attempt was made, and an absent count reads as 0.)
C3_ReportArithmetic ==
    \A t \in Tasks :
        ReturnedBatch(t) /\ task[t].check = "ok" =>
            LET r == task[t].ret
            IN /\ r.synced = Get(r, "success_count", 0) + Get(r, "error_count", 0)
               /\ r.synced + r.skipped = r.total
               /\ r.total = Len(get_active_profiles)

\* A smart batch has returned with a failed attempt and a skipped profile.
C3_Witness ==
    \E t \in Tasks :
        /\ ReturnedBatch(t)
        /\ task[t].check = "ok"
        /\ "error_count" \in DOMAIN task[t].ret
        /\ task[t].ret.error_count >= 1
        /\ task[t].ret.skipped >= 1

\* C4: for every profile, in every reachable state, the stored
\* sync_count + error_count equals the number of sync attempts completed and
\* recorded for that profile.
C4_CountsEqualRecorded ==
    \A p \in ProfileIds : db[p].sync_count + db[p].error_count = recorded[p]

\* t's update_profile call of sync_profile completes in this step
Records(t) == task[t].pc = "sp_upd" /\ task'[t] # task[t]

\* C5: when extract_token returned no token, the bookkeeping of the attempt
\* stores an error_count exactly one more than the profile had when the
\* attempt looked it up, and leaves the stored sync_count as it is.
C5_NoTokenErrorCount ==
    [][\A t \in Tasks :
          Records(t) /\ task[t].token = NoToken =>
              LET p == task[t].profile_id
              IN /\ db'[p].error_count = task[t].profile.error_count + 1
                 /\ db'[p].sync_count = db[p].sync_count]_vars

\* A direct sync_profile has returned after extraction gave no token, and the
\* profile's first error is stored.
C5_Witness ==
    \E t \in Tasks, p \in ProfileIds :
        /\ task[t].pc = "returned"
        /\ task[t].op = "sync_profile"
        /\ task[t].attempts[p] = 1
        /\ task[t].n_extract = 1
        /\ task[t].token = NoToken
        /\ db[p].error_count = 1
        /\ db[p].sync_count = 0

\* C6: a push is made only in an attempt whose extract_token returned a
\* token: the POST is never awaited, and has never been made in the attempt,
\* unless the attempt holds a token.
C6_PushOnlyWithToken ==
    \A t \in Tasks :
        task[t].pc = "sp_push" \/ task[t].pushed => task[t].token = Token

\* An attempt has pushed its token.
C6_Witness ==
    \E t \in Tasks : task[t].pushed /\ task[t].token = Token /\ task[t].n_push >= 1

\* extract_token has returned no token to coroutine t
NoTokenReturned(t) ==
    IF task[t].op = "verify_cookies"
    THEN task[t].pc = "returned" /\ task[t].ret = [success |-> TRUE, valid |-> FALSE]
    ELSE task[t].pc = "sp_upd" /\ task[t].token = NoToken

\* C7: whenever extract_token returns no token for a profile, on every path
\* that returns none, the profile's is_logged_in is false when it returns.
C7_LoggedOutOnNoToken ==
    [][\A t \in Tasks :
          InGate(t) /\ NoTokenReturned(t)' =>
              db'[task[t].profile_id].is_logged_in = 0]_vars

\* C8: when the staleness check succeeds and reports nothing stale, the batch
\* makes no extraction call, no push call and no profile update, and reports
\* synced = 0 and skipped = total; a second such batch in succession returns
\* the same report.
C8_NothingStale ==
    \A t \in Tasks :
        ReturnedBatch(t) /\ task[t].check = "ok"
        /\ task[t].needs_refresh_emails = {} =>
            /\ task[t].n_extract = 0
            /\ task[t].n_push = 0
            /\ task[t].n_update = 0
            /\ task[t].ret.synced = 0
            /\ task[t].ret.skipped = Len(get_active_profiles)
            /\ task[t].ret.total = Len(get_active_profiles)
            /\ \A r \in task[t].prev_fresh : task[t].ret = r

\* Two batches in succession have found nothing stale among the profiles.
C8_Witness ==
    \E t \in Tasks :
        /\ ReturnedBatch(t)
        /\ task[t].check = "ok"
        /\ task[t].needs_refresh_emails = {}
        /\ task[t].prev_fresh # {}
        /\ task[t].ret.total >= 1

\* C9: with zero active profiles sync_all_profiles never queries the
\* staleness endpoint, never extracts and never pushes, and (a credential
\* being configured) returns total = 0, synced = 0, skipped = 0.
C9_NoActiveProfiles ==
    \A t \in Tasks :
        task[t].op = "sync_all" /\ get_active_profiles = <<>> =>
            /\ task[t].pc \in {"sa_list", "returned"}
            /\ task[t].n_check = 0
            /\ task[t].n_extract = 0
            /\ task[t].n_push = 0
            /\ task[t].pc = "returned" /\ connection_token =>
                 /\ task[t].ret.total = 0
                 /\ task[t].ret.synced = 0
                 /\ task[t].ret.skipped = 0

\* A batch over zero active profiles has returned its report.
C9_Witness ==
    \E t \in Tasks :
        /\ ReturnedBatch(t)
        /\ get_active_profiles = <<>>
        /\ task[t].n_list = 1
        /\ task[t].ret = EmptyReport

\* C10: without a credential, the invocation of sync_all_profiles returns
\* the missing-credential error in the same step and changes nothing: no
\* listing, no staleness query, no extraction, no push, no profile update,
\* and the counters and the last-batch timestamp stay as they are.
C10_MissingCredentialNoEffect ==
    [][\A t \in Tasks :
          /\ ~connection_token
          /\ task[t].pc = "idle"
          /\ task'[t] # task[t]
          /\ task'[t].op = "sync_all"
          => /\ task'[t].pc = "returned"
             /\ task'[t].ret.success = FALSE
             /\ "error" \in DOMAIN task'[t].ret
             /\ task'[t].n_list = 0 /\ task'[t].n_check = 0
             /\ task'[t].n_extract = 0 /\ task'[t].n_push = 0
             /\ task'[t].n_update = 0
             /\ UNCHANGED <<db, cookie_file, _locked, _waiters, sessions,
                            _total_sync_count, _total_error_count,
                            _last_batch_time>>]_vars

\* A batch invoked without a credential has returned the error.
C10_Witness ==
    \E t \in Tasks :
        /\ ReturnedBatch(t)
        /\ ~connection_token
        /\ task[t].ret = [success |-> FALSE, error |-> "no CONNECTION_TOKEN"]

\* The positions in s at which an occurrence of sep starts
Occurrences(s, sep) ==
    {i \in 1..Len(s) : /\ i + Len(sep) - 1 <= Len(s)
                       /\ SubSeq(s, i, i + Len(sep) - 1) = sep}

\* The part of s after the last occurrence of sep (s contains sep)
AfterLast(s, sep) ==
    LET last == CHOOSE i \in Occurrences(s, sep) :
                    \A j \in Occurrences(s, sep) : j <= i
    IN SubSeq(s, last + Len(sep), Len(s))

\* C11: after a successful push whose response message contains the
\* separator " for ", the email stored on the profile is exactly the part of
\* the message after the last occurrence of the separator.
C11_EmailAfterLastSeparator ==
    \A t \in Tasks :
        /\ task[t].pc = "returned"
        /\ task[t].op = "sync_profile"
        /\ task[t].ret.success
        /\ Contains(task[t].ret.message, Separator)
        => db[1].email = AfterLast(task[t].ret.message, Separator)

\* t's invocation of sync_all_profiles returns in this step
BatchReturns(t) ==
    /\ task[t].op = "sync_all"
    /\ task[t].pc # "returned"
    /\ task'[t].pc = "returned"

\* The remote report marks email both is_active and needs_refresh
MarkedStale(report, email) ==
    \E x \in report : x.email = email /\ x.is_active /\ x.needs_refresh

\* C12: when the staleness check succeeded, the batch that returns has sent
\* a listed profile through sync_profile (once) if and only if the profile
\* has an email and the remote report marks that email both is_active and
\* needs_refresh; every other listed profile was not attempted, and skipped
\* counts exactly those.
C12_RefreshSet ==
    [][\A t \in Tasks :
          BatchReturns(t) /\ task'[t].check = "ok" =>
              LET profiles == task[t].profiles
                  wanted == {i \in 1..Len(profiles) :
                               /\ Truthy(profiles[i].email)
                               /\ MarkedStale(task'[t].report, profiles[i].email)}
              IN /\ \A i \in 1..Len(profiles) :
                       task'[t].attempts[profiles[i].id] =
                           IF i \in wanted THEN 1 ELSE 0
                 /\ task'[t].ret.skipped = Len(profiles) - Cardinality(wanted)]_vars

\* A batch has returned after attempting one profile and skipping another,
\* whose email the remote report marks needs_refresh but not is_active.
C12_Witness ==
    \E t \in Tasks :
        /\ ReturnedBatch(t)
        /\ task[t].check = "ok"
        /\ \E p \in ProfileIds : task[t].attempts[p] = 1
        /\ task[t].ret.skipped >= 1
        /\ \E x \in task[t].report : x.needs_refresh /\ ~x.is_active

\* The entries of a results list that record a failed attempt
Failures(results) == {i \in 1..Len(results) : ~results[i].success}

\* C13: a failed attempt does not abort the batch.  Every batch that went
\* through its profiles, on the smart path and on the fallback path, returns
\* success = true with every active profile either attempted (one results
\* entry) or skipped, whatever attempts failed; each failure is an entry of
\* results with its error, counted in error_count.
C13_FailureDoesNotAbort ==
    \A t \in Tasks :
        ReturnedBatch(t) /\ "results" \in DOMAIN task[t].ret =>
            LET r == task[t].ret
            IN /\ r.success
               /\ Len(r.results) + Get(r, "skipped", 0) = Len(get_active_profiles)
               /\ r.total = Len(get_active_profiles)
               /\ r.error_count = Cardinality(Failures(r.results))
               /\ \A i \in Failures(r.results) : "error" \in DOMAIN r.results[i]

\* A batch has returned whose first attempt failed and whose second attempt,
\* made after that failure, succeeded.
C13_Witness ==
    \E t \in Tasks :
        /\ ReturnedBatch(t)
        /\ "results" \in DOMAIN task[t].ret
        /\ Len(task[t].ret.results) >= 2
        /\ ~task[t].ret.results[1].success
        /\ task[t].ret.results[2].success

\* C14: the stored sync_count and error_count of a profile never decrease:
\* no step, whatever attempts overlap, stores a value lower than the one
\* stored before it.
C14_CountsNeverDecrease ==
    [][\A p \in ProfileIds :
          /\ db'[p].sync_count >= db[p].sync_count
          /\ db'[p].error_count >= db[p].error_count]_vars

\* The results of the attempts coroutine t has completed so far: the entries
\* of the results list of a batch (running or returned), the result of a
\* returned sync_profile call that got as far as extract_token.
Completed(t) ==
    IF task[t].op = "sync_all"
    THEN IF task[t].pc = "returned"
         THEN Get(task[t].ret, "results", <<>>) ELSE task[t].results
    ELSE IF /\ task[t].op = "sync_profile"
            /\ task[t].pc = "returned"
            /\ task[t].n_extract > 0
         THEN <<task[t].ret>> ELSE <<>>

\* The result the attempt that t has just finished gave to its caller
LastResult(t) ==
    IF task[t].op = "sync_profile" THEN task[t].ret
    ELSE Completed(t)[Len(Completed(t))]

\* t is in a sync_profile attempt on profile p
InAttempt(t, p) ==
    /\ task[t].op \in {"sync_all", "sync_profile"}
    /\ task[t].profile_id = p
    /\ task[t].pc \in {"sp_get", "et_wait", "et_get", "et_browser", "et_upd",
                       "sp_push", "sp_upd"}

\* t's attempt on an existing profile finishes in this step: its caller has
\* the result (the entry point returns, or the loop starts its next attempt)
Finishes(t) ==
    /\ \E p \in ProfileIds : InAttempt(t, p)
    /\ \/ task'[t].pc = "returned"
       \/ task'[t].attempts # task[t].attempts

\* C15: the process-wide counters start at zero, no step decreases them, and
\* they count the completed attempts: a step in which an attempt finishes
\* adds one to total_sync_count when its push succeeded and one to
\* total_error_count when it failed at extraction or at push, and leaves the
\* other counter; no other step changes either.  (So in every state each
\* counter is the number of such attempts completed so far.)
C15_TotalCounters ==
    /\ _total_sync_count = 0
    /\ _total_error_count = 0
    /\ [][/\ _total_sync_count' >= _total_sync_count
          /\ _total_error_count' >= _total_error_count
          /\ IF \E t \in Tasks : Finishes(t)
             THEN \A t \in Tasks :
                     Finishes(t) =>
                         IF LastResult(t)'.success
                         THEN /\ _total_sync_count' = _total_sync_count + 1
                              /\ _total_error_count' = _total_error_count
                         ELSE /\ _total_error_count' = _total_error_count + 1
                              /\ _total_sync_count' = _total_sync_count
             ELSE UNCHANGED <<_total_sync_count, _total_error_count>>]_vars

\* Two overlapping invocations have each completed an attempt, one with a
\* successful push and one with a failure.
C15_Witness ==
    /\ _total_sync_count = 1
    /\ _total_error_count = 1
    /\ \A t \in Tasks : Completed(t) # <<>>

FailureTags ==
    {"failed: no token", "failed: exception", "failed: HTTP error",
     "failed: no CONNECTION_TOKEN"}

\* C16: every sync_profile attempt on an existing profile applies its
\* bookkeeping exactly once, in each of its branches.  An attempt finishes
\* in the step that completes its update_profile, and in no other; that step
\* sets last_sync_time, sets last_sync_result to the outcome of the attempt
\* (success tag or failure reason), writes exactly one of sync_count and
\* error_count, as the value the attempt looked up plus one, and leaves the
\* other counter as stored.
C16_BookkeepingOnce ==
    [][\A t \in Tasks :
          /\ Finishes(t) <=> Records(t)
          /\ Records(t) =>
                LET p == task[t].profile_id
                    res == LastResult(t)'
                IN /\ recorded'[p] = recorded[p] + 1
                   /\ db'[p].last_sync_time = now
                   /\ IF res.success
                      THEN /\ db'[p].last_sync_result = "success: updated"
                           /\ db'[p].sync_count = task[t].profile.sync_count + 1
                           /\ db'[p].error_count = db[p].error_count
                      ELSE /\ db'[p].last_sync_result \in FailureTags
                           /\ db'[p].error_count = task[t].profile.error_count + 1
                           /\ db'[p].sync_count = db[p].sync_count]_vars

\* Two attempts on the same profile have finished, one failed and one
\* successful, and the stored outcome is that of the successful one.
C16_Witness ==
    \E p \in ProfileIds :
        /\ recorded[p] = 2
        /\ db[p].error_count = 1
        /\ db[p].sync_count = 1
        /\ db[p].last_sync_result = "success: updated"
        /\ \A t \in Tasks : task[t].pc = "returned"

\* The entries of results are in listing order (the store lists by id)
InListingOrder(results) ==
    \A i, j \in 1..Len(results) :
        i < j => results[i].profile_id < results[j].profile_id

\* C17: within one batch the attempts run one after the other in listing
\* order.  While the batch is in its loop at position idx, the profiles
\* attempted so far are listed at or before idx, every one listed before idx
\* has finished (its result is in results) and the one at idx is the only
\* attempt in progress; no later-listed profile has been looked up, extracted
\* or pushed.  The results list, in the loop and in the report, is in
\* listing order.
C17_SequentialInListingOrder ==
    \A t \in Tasks :
        task[t].op = "sync_all" =>
            /\ InListingOrder(Completed(t))
            /\ task[t].pc # "returned" /\ task[t].idx >= 1 =>
                 LET tk == task[t]
                     done == {tk.results[i].profile_id : i \in 1..Len(tk.results)}
                 IN \A j \in 1..Len(tk.profiles) :
                      LET p == tk.profiles[j].id
                      IN /\ j < tk.idx => (tk.attempts[p] = 1 <=> p \in done)
                         /\ j = tk.idx => /\ tk.attempts[p] = 1
                                          /\ InAttempt(t, p)
                                          /\ p \notin done
                         /\ j > tk.idx => tk.attempts[p] = 0 /\ p \notin done

\* A batch is in the browser session of its second attempt, the result of
\* its first attempt recorded.
C17_Witness ==
    \E t \in Tasks :
        /\ task[t].op = "sync_all"
        /\ task[t].pc = "et_browser"
        /\ task[t].idx = 2
        /\ Len(task[t].results) = 1
        /\ task[t].results[1].profile_id = 1

\* C18: the gate is never left held.  The lock is held only while a caller
\* is inside the gated section of extract_token, whichever way the previous
\* holders left it (token found, no token, missing profile, missing cookie
\* file, browser exception); and every caller that waits for the gate
\* eventually acquires it, given that every extraction session finishes.
C18_GateReleased ==
    /\ [](_locked => \E t \in Callers : InGate(t))
    /\ \A t \in Callers : (task[t].pc = "et_wait") ~> InGate(t)

\* Two callers queue for the gate while a third is in its browser session.
C18_Witness ==
    /\ _locked
    /\ Len(_waiters) = 2
    /\ \E t \in Callers : task[t].pc = "et_browser"

\* C19: sync_profile on a profile id that does not exist returns a failure
\* result and does nothing else.  The one step of such a call after its
\* lookup returns the failure, with no extraction, no push and no profile
\* update made, and leaves the store, the gate, total_sync_count and
\* total_error_count as they are.
C19_MissingProfileNoEffect ==
    [][\A t \in Tasks :
          /\ task[t].op = "sync_profile"
          /\ task[t].pc = "sp_get"
          /\ get_profile(task[t].profile_id) = NoProfile
          /\ task'[t] # task[t]
          => /\ task'[t].pc = "returned"
             /\ task'[t].ret.success = FALSE
             /\ "error" \in DOMAIN task'[t].ret
             /\ task'[t].n_extract = 0
             /\ task'[t].n_push = 0
             /\ task'[t].n_update = 0
             /\ UNCHANGED <<db, cookie_file, _locked, _waiters, sessions,
                            recorded, _total_sync_count, _total_error_count,
                            _last_batch_time>>]_vars

\* A sync_profile call on the id that does not exist has returned.
C19_Witness ==
    \E t \in Tasks :
        /\ task[t].pc = "returned"
        /\ task[t].op = "sync_profile"
        /\ task[t].attempts[MissingId] = 1
        /\ task[t].ret = [success |-> FALSE, error |-> "profile does not exist"]

\* C20: when a push succeeds and the response message does not contain the
\* separator, the attempt is recorded as a success, the email given to the
\* profile update is the email the profile had, and the update leaves a known
\* email of the profile in place.
C20_EmailKept ==
    [][\A t \in Tasks :
          /\ Records(t)
          /\ task[t].token # NoToken
          /\ task[t].result.success
          /\ ~Contains(task[t].result.message, Separator)
          => LET p == task[t].profile_id
             IN /\ db'[p].last_sync_result = "success: updated"
                /\ db'[p].sync_count = task[t].profile.sync_count + 1
                /\ Bookkeeping(task[t]).email = task[t].profile.email
                /\ Truthy(db[p].email) => db'[p].email = db[p].email]_vars

\* C21: the report of the fallback path classifies nothing as skipped.  Every
\* report returned by _sync_all_profiles_force carries no skipped entry, its
\* total is the number of active profiles the batch went through,
\* success_count + error_count = total, and results holds one entry per
\* active profile, in listing order, whatever invocation overlaps the batch.
C21_ForceReportNoSkipped ==
    \A t \in Tasks :
        ReturnedBatch(t) /\ task[t].mode = "force" =>
            LET r == task[t].ret
                active == get_active_profiles
            IN /\ "skipped" \notin DOMAIN r
               /\ r.total = Len(active)
               /\ r.success_count + r.error_count = r.total
               /\ Len(r.results) = r.total
               /\ \A i \in 1..Len(r.results) :
                     r.results[i].profile_id = active[i].id

\* A fallback batch over two active profiles has returned with one attempt
\* succeeded and one failed.
C21_Witness ==
    \E t \in Tasks :
        /\ ReturnedBatch(t)
        /\ task[t].mode = "force"
        /\ task[t].ret.total = 2
        /\ task[t].ret.success_count = 1
        /\ task[t].ret.error_count = 1

====
